---------------------------- MODULE Spec2Model ----------------------------
(***************************************************************************)
(* A model of singleflight-async (src/src/lib.rs): SingleFlight::work, the *)
(* registry `mapping` behind a parking_lot RwLock, and the BroadcastOnce   *)
(* cell (slot + tokio Notify) that hands one value to every waiter.        *)
(*                                                                         *)
(* A call to work is one element of Calls.  The cell a call creates is     *)
(* named by that call, so `mapping`, `slot`, `notifyCalls` and `waitlist`  *)
(* are indexed by the owner's call.  Every step of work that another       *)
(* thread can observe is one action.                                       *)
(***************************************************************************)
EXTENDS Naturals, FiniteSets

\* Number of calls to work in one run.
MaxCalls == 3

Calls == 1..MaxCalls

\* Option::None for "no cell" / "no call".
NoCall == 0

\* The keys callers pass and the outputs producers return.
Keys == {"k1", "k2"}
Values == {"R1", "R2"}

NoKey == "nokey"
\* slot: UnsafeCell<Option<T>>: None, Some(v), or a write in progress.
Empty == "None"
Writing == "writing"
NoValue == "novalue"

VARIABLES
    pc,          \* where each call is in work / in its returned future
    key,         \* the key argument of each call
    lock,        \* the RwLock around mapping: mode and holder
    mapping,     \* HashMap<K, BroadcastOnce<T>>: key -> cell (owner call)
    cellOf,      \* the cell a call holds a reference to (call / waiter.shared)
    slot,        \* Shared::slot of each cell
    notifyCalls, \* Notify: number of notify_waiters calls on each cell
    waitlist,    \* Notify: the Notified futures enqueued on each cell
    seen,        \* Notified: notify_waiters count captured at notified()
    woken,       \* Notified: calls whose enqueued Notified was notified
    output,      \* owner: the value its producer's future returned
    result,      \* the value the call's future resolved to
    invoked,     \* how many times the call's producer func() was called
    epochs,      \* per key: number of cells ever inserted
    inflightAt,  \* per call: owners of its key with unfinished work at its lookup
    doneAt,      \* per call: TRUE iff all earlier same-key calls had resolved at its lookup
    stuckAt,     \* per call: owners of its key already dropped at its lookup
    latePoll,    \* per call: TRUE iff first polled after its cell was notified
    awaiting     \* the future a sequential caller is awaiting (NoCall: none)

vars == <<pc, key, lock, mapping, cellOf, slot, notifyCalls, waitlist, seen,
          woken, output, result, invoked, epochs, inflightAt, doneAt,
          stuckAt, latePoll, awaiting>>

cellVars == <<slot, notifyCalls, waitlist, woken>>
histVars == <<epochs, inflightAt, doneAt, stuckAt, latePoll>>

Free == [mode |-> "free", holder |-> NoCall]

\* pc values of an owner whose producer future has returned its output.
WorkCompleted == {"fut_done", "removing", "wake", "writing", "notify", "done"}
\* pc values of an owner that inserted its cell and whose work is unfinished.
WorkPending == {"invoke", "owner_ready", "running", "dropped_owner"}
\* pc values in which a call has not yet left the synchronous lookup.
Undecided == {"idle", "get", "upgraded"}

Init ==
    /\ pc = [c \in Calls |-> "idle"]
    /\ key = [c \in Calls |-> NoKey]
    /\ lock = Free
    /\ mapping = [k \in Keys |-> NoCall]
    /\ cellOf = [c \in Calls |-> NoCall]
    /\ slot = [c \in Calls |-> Empty]
    /\ notifyCalls = [c \in Calls |-> 0]
    /\ waitlist = [c \in Calls |-> {}]
    /\ seen = [c \in Calls |-> 0]
    /\ woken = {}
    /\ output = [c \in Calls |-> NoValue]
    /\ result = [c \in Calls |-> NoValue]
    /\ invoked = [c \in Calls |-> 0]
    /\ epochs = [k \in Keys |-> 0]
    /\ inflightAt = [c \in Calls |-> {}]
    /\ doneAt = [c \in Calls |-> FALSE]
    /\ stuckAt = [c \in Calls |-> {}]
    /\ latePoll = [c \in Calls |-> FALSE]
    /\ awaiting = NoCall

\* A lookup that takes any live entry for the key's bucket, whatever its key.
Get_AnyKey(m, k) ==
    IF \E k2 \in DOMAIN m : m[k2] # NoCall
      THEN m[CHOOSE k2 \in DOMAIN m : m[k2] # NoCall]
      ELSE NoCall

\* m.get(&key)
Get(m, k) == m[k]

\* m.insert(key, call)
MapInsert(m, k, cell) == [m EXCEPT ![k] = cell]

\* A removal that leaves the entry in place.
MapRemove_Keep(m, k) == m

\* m.remove(&key)
MapRemove(m, k) == [m EXCEPT ![k] = NoCall]

\* A plain read lock, which any number of callers hold at once.
CanLock_SharedRead(l) == l.mode # "write"

\* parking_lot: an upgradable read or a write lock needs no other upgradable
\* reader and no writer; the code takes no plain read lock.
CanLock(l) == l.mode = "free"

\* The owners of key k whose cell is inserted and whose work is unfinished.
InFlight(k) == {o \in Calls : key[o] = k /\ pc[o] \in WorkPending}

\* let m = self.mapping.upgradable_read();  Calls are numbered in the order
\* in which they take the lock.
UpgradableRead(c, k) ==
    /\ pc[c] = "idle"
    /\ \A d \in Calls : d < c => pc[d] # "idle"
    /\ CanLock(lock)
    /\ lock' = [mode |-> "upgradable", holder |-> c]
    /\ pc' = [pc EXCEPT ![c] = "get"]
    /\ key' = [key EXCEPT ![c] = k]
    /\ inflightAt' = [inflightAt EXCEPT ![c] = InFlight(k)]
    /\ doneAt' = [doneAt EXCEPT ![c] =
                    /\ \E d \in Calls : key[d] = k
                    /\ \A d \in Calls : key[d] = k => pc[d] = "done"]
    /\ stuckAt' = [stuckAt EXCEPT ![c] =
                    {o \in Calls : key[o] = k /\ pc[o] = "dropped_owner"}]
    /\ UNCHANGED <<mapping, cellOf, cellVars, seen, output, result, invoked,
                   epochs, latePoll, awaiting>>

\* A waiter path that calls the producer as well.
Attach_CallsFunc(c) ==
    /\ pc[c] = "get"
    /\ Get(mapping, key[c]) # NoCall
    /\ cellOf' = [cellOf EXCEPT ![c] = Get(mapping, key[c])]
    /\ seen' = [seen EXCEPT ![c] = notifyCalls[Get(mapping, key[c])]]
    /\ invoked' = [invoked EXCEPT ![c] = @ + 1]
    /\ lock' = Free
    /\ pc' = [pc EXCEPT ![c] = "waiter_ready"]
    /\ UNCHANGED <<key, mapping, cellVars, output, result, histVars, awaiting>>

\* Some(call) => { let waiter = call.waiter(); drop(m); Either::Left(waiter) }
\* waiter(): notified() captures the cell's notify_waiters count, and the
\* waiter clones the Arc of the cell.
Attach(c) ==
    /\ pc[c] = "get"
    /\ Get(mapping, key[c]) # NoCall
    /\ cellOf' = [cellOf EXCEPT ![c] = Get(mapping, key[c])]
    /\ seen' = [seen EXCEPT ![c] = notifyCalls[Get(mapping, key[c])]]
    /\ lock' = Free
    /\ pc' = [pc EXCEPT ![c] = "waiter_ready"]
    /\ UNCHANGED <<key, mapping, cellVars, output, result, invoked, histVars,
                   awaiting>>

\* A reader that drops its read guard and takes the write lock afterwards.
Upgrade_ReleaseFirst(c) ==
    /\ pc[c] = "get"
    /\ Get(mapping, key[c]) = NoCall
    /\ cellOf' = [cellOf EXCEPT ![c] = c]
    /\ lock' = Free
    /\ pc' = [pc EXCEPT ![c] = "upgraded"]
    /\ UNCHANGED <<key, mapping, cellVars, seen, output, result, invoked,
                   histVars, awaiting>>

\* None => { let call = BroadcastOnce::new();
\*           let mut m = RwLockUpgradableReadGuard::upgrade(m);
Upgrade(c) ==
    /\ pc[c] = "get"
    /\ Get(mapping, key[c]) = NoCall
    /\ cellOf' = [cellOf EXCEPT ![c] = c]
    /\ lock' = [mode |-> "write", holder |-> c]
    /\ pc' = [pc EXCEPT ![c] = "upgraded"]
    /\ UNCHANGED <<key, mapping, cellVars, seen, output, result, invoked,
                   histVars, awaiting>>

\* An insert whose write guard lives on to the end of work.
Insert_KeepsGuard(c) ==
    /\ pc[c] = "upgraded"
    /\ mapping' = MapInsert(mapping, key[c], cellOf[c])
    /\ epochs' = [epochs EXCEPT ![key[c]] = @ + 1]
    /\ pc' = [pc EXCEPT ![c] = "invoke"]
    /\ UNCHANGED <<key, lock, cellOf, cellVars, seen, output, result, invoked,
                   inflightAt, doneAt, stuckAt, latePoll, awaiting>>

\* m.insert(key.clone(), call.clone()); and the write guard goes out of scope.
Insert(c) ==
    /\ pc[c] = "upgraded"
    /\ mapping' = MapInsert(mapping, key[c], cellOf[c])
    /\ epochs' = [epochs EXCEPT ![key[c]] = @ + 1]
    /\ lock' = Free
    /\ pc' = [pc EXCEPT ![c] = "invoke"]
    /\ UNCHANGED <<key, cellOf, cellVars, seen, output, result, invoked,
                   inflightAt, doneAt, stuckAt, latePoll, awaiting>>

\* A work that leaves calling the producer to the future's first poll.
InvokeFunc_Lazy(c) ==
    /\ pc[c] = "invoke"
    /\ pc' = [pc EXCEPT ![c] = "owner_ready"]
    /\ UNCHANGED <<key, lock, mapping, cellOf, cellVars, seen, output, result,
                   invoked, histVars, awaiting>>

\* Either::Right((key, func(), self.mapping.clone(), call)): the producer is
\* called, outside the lock, and work returns the future.
InvokeFunc(c) ==
    /\ pc[c] = "invoke"
    /\ invoked' = [invoked EXCEPT ![c] = @ + 1]
    /\ pc' = [pc EXCEPT ![c] = "owner_ready"]
    /\ UNCHANGED <<key, lock, mapping, cellOf, cellVars, seen, output, result,
                   histVars, awaiting>>

\* The call's future stops being awaited when it resolves, panics or is dropped.
Finished(c) == IF awaiting = c THEN NoCall ELSE awaiting

\* An owner that removes its entry before it awaits the producer's future.
PollOwnerStep_RemoveFirst(c) ==
    /\ pc[c] = "owner_ready"
    /\ pc' = [pc EXCEPT ![c] = "running"]
    /\ mapping' = MapRemove(mapping, key[c])
    /\ UNCHANGED <<key, lock, cellOf, cellVars, seen, output, result,
                   invoked, histVars>>

\* First poll of the owner's future: `fut.await` starts the producer's future.
PollOwnerStep(c) ==
    /\ pc[c] = "owner_ready"
    /\ pc' = [pc EXCEPT ![c] = "running"]
    /\ UNCHANGED <<key, lock, mapping, cellOf, cellVars, seen, output, result,
                   invoked, histVars>>

PollOwner(c) == PollOwnerStep(c) /\ UNCHANGED awaiting

\* let output = fut.await;  the producer's future returns v.
FutReady(c, v) ==
    /\ pc[c] = "running"
    /\ output' = [output EXCEPT ![c] = v]
    /\ pc' = [pc EXCEPT ![c] = "fut_done"]
    /\ UNCHANGED <<key, lock, mapping, cellOf, cellVars, seen, result, invoked,
                   histVars, awaiting>>

\* mapping.write()
WriteLock(c) ==
    /\ pc[c] = "fut_done"
    /\ CanLock(lock)
    /\ lock' = [mode |-> "write", holder |-> c]
    /\ pc' = [pc EXCEPT ![c] = "removing"]
    /\ UNCHANGED <<key, mapping, cellOf, cellVars, seen, output, result,
                   invoked, histVars, awaiting>>

\* An owner that goes on to wake without removing its entry.
Remove_NoOp(c) ==
    /\ pc[c] = "removing"
    /\ lock' = Free
    /\ pc' = [pc EXCEPT ![c] = "wake"]
    /\ UNCHANGED <<key, mapping, cellOf, cellVars, seen, output, result,
                   invoked, histVars, awaiting>>

\* .remove(&key); and the temporary write guard is dropped.
Remove(c) ==
    /\ pc[c] = "removing"
    /\ mapping' = MapRemove(mapping, key[c])
    /\ lock' = Free
    /\ pc' = [pc EXCEPT ![c] = "wake"]
    /\ UNCHANGED <<key, cellOf, cellVars, seen, output, result, invoked,
                   histVars, awaiting>>

\* A wake that notifies the waiters before it stores the value.
StoreBegin_NotifyFirst(c) ==
    /\ pc[c] = "wake"
    /\ slot' = [slot EXCEPT ![cellOf[c]] = Writing]
    /\ notifyCalls' = [notifyCalls EXCEPT ![cellOf[c]] = @ + 1]
    /\ woken' = woken \cup waitlist[cellOf[c]]
    /\ waitlist' = [waitlist EXCEPT ![cellOf[c]] = {}]
    /\ pc' = [pc EXCEPT ![c] = "writing"]
    /\ UNCHANGED <<key, lock, mapping, cellOf, seen, output, result, invoked,
                   histVars, awaiting>>

\* wake: `*self.shared.slot.get() = Some(value)` begins: a plain store through
\* an UnsafeCell, which a concurrent reader could see half done.
StoreBegin(c) ==
    /\ pc[c] = "wake"
    /\ slot' = [slot EXCEPT ![cellOf[c]] = Writing]
    /\ pc' = [pc EXCEPT ![c] = "writing"]
    /\ UNCHANGED <<key, lock, mapping, cellOf, notifyCalls, waitlist, woken,
                   seen, output, result, invoked, histVars, awaiting>>

\* wake: the store of Some(value) is complete.
StoreEnd(c) ==
    /\ pc[c] = "writing"
    /\ slot' = [slot EXCEPT ![cellOf[c]] = output[c]]
    /\ pc' = [pc EXCEPT ![c] = "notify"]
    /\ UNCHANGED <<key, lock, mapping, cellOf, notifyCalls, waitlist, woken,
                   seen, output, result, invoked, histVars, awaiting>>

\* A notify_waiters that wakes the enqueued futures and keeps no count.
NotifyWaiters_NoCount(c) ==
    /\ pc[c] = "notify"
    /\ woken' = woken \cup waitlist[cellOf[c]]
    /\ waitlist' = [waitlist EXCEPT ![cellOf[c]] = {}]
    /\ result' = [result EXCEPT ![c] = output[c]]
    /\ pc' = [pc EXCEPT ![c] = "done"]
    /\ awaiting' = Finished(c)
    /\ UNCHANGED <<key, lock, mapping, cellOf, slot, notifyCalls, seen, output,
                   invoked, histVars>>

\* wake: self.shared.notify.notify_waiters(): the call count goes up and every
\* enqueued Notified is notified and taken off the list.  Then the owner
\* returns `output`.
NotifyWaiters(c) ==
    /\ pc[c] = "notify"
    /\ notifyCalls' = [notifyCalls EXCEPT ![cellOf[c]] = @ + 1]
    /\ woken' = woken \cup waitlist[cellOf[c]]
    /\ waitlist' = [waitlist EXCEPT ![cellOf[c]] = {}]
    /\ result' = [result EXCEPT ![c] = output[c]]
    /\ pc' = [pc EXCEPT ![c] = "done"]
    /\ awaiting' = Finished(c)
    /\ UNCHANGED <<key, lock, mapping, cellOf, slot, seen, output, invoked,
                   histVars>>

\* A Notified that only counts wake-ups sent after its first poll.
NotifiedSince_OnlyOncePolled(c) == FALSE

\* Notified::poll in its initial state: ready at once when notify_waiters has
\* been called since notified() created it.
NotifiedSince(c) == notifyCalls[cellOf[c]] # seen[c]

\* First poll of a waiter's future: `self.notified.await` either is ready or
\* enqueues the Notified on the cell's wait list and suspends.
PollWaiterStep(c) ==
    /\ pc[c] = "waiter_ready"
    /\ latePoll' = [latePoll EXCEPT ![c] = notifyCalls[cellOf[c]] > 0]
    /\ IF NotifiedSince(c)
         THEN /\ pc' = [pc EXCEPT ![c] = "read"]
              /\ UNCHANGED waitlist
         ELSE /\ pc' = [pc EXCEPT ![c] = "waiting"]
              /\ waitlist' = [waitlist EXCEPT ![cellOf[c]] = @ \cup {c}]
    /\ UNCHANGED <<key, lock, mapping, cellOf, slot, notifyCalls, woken, seen,
                   output, result, invoked, epochs, inflightAt, doneAt, stuckAt>>

PollWaiter(c) == PollWaiterStep(c) /\ UNCHANGED awaiting

\* A suspended waiter whose Notified was notified is polled again.
Resume(c) ==
    /\ pc[c] = "waiting"
    /\ c \in woken
    /\ woken' = woken \ {c}
    /\ pc' = [pc EXCEPT ![c] = "read"]
    /\ UNCHANGED <<key, lock, mapping, cellOf, slot, notifyCalls, waitlist,
                   seen, output, result, invoked, histVars, awaiting>>

\* A waiter that takes the value out of the slot instead of cloning it.
ReadSlot_Take(c, v) ==
    /\ pc[c] = "read"
    /\ IF slot[cellOf[c]] \in Values
         THEN /\ v = slot[cellOf[c]]
              /\ result' = [result EXCEPT ![c] = v]
              /\ pc' = [pc EXCEPT ![c] = "done"]
         ELSE /\ v = NoValue
              /\ pc' = [pc EXCEPT ![c] = "panicked"]
              /\ UNCHANGED result
    /\ slot' = [slot EXCEPT ![cellOf[c]] = Empty]
    /\ awaiting' = Finished(c)
    /\ UNCHANGED <<key, lock, mapping, cellOf, notifyCalls, waitlist, woken,
                   seen, output, invoked, histVars>>

\* A waiter that reads the slot of the key's live registry cell, when there
\* is one, instead of the cell it registered on.
ReadSlot_FromRegistry(c, v) ==
    /\ pc[c] = "read"
    /\ LET live == Get(mapping, key[c])
           cell == IF live # NoCall THEN live ELSE cellOf[c]
       IN  IF slot[cell] \in Values
             THEN /\ v = slot[cell]
                  /\ result' = [result EXCEPT ![c] = v]
                  /\ pc' = [pc EXCEPT ![c] = "done"]
             ELSE /\ v = NoValue
                  /\ pc' = [pc EXCEPT ![c] = "panicked"]
                  /\ UNCHANGED result
    /\ awaiting' = Finished(c)
    /\ UNCHANGED <<key, lock, mapping, cellOf, cellVars, seen, output, invoked,
                   histVars>>

\* (*self.shared.slot.get()).clone().expect("value not set unexpectedly")
\* A read that overlaps the store is a data race: any value, or the panic.
ReadSlot(c, v) ==
    /\ pc[c] = "read"
    /\ \/ /\ slot[cellOf[c]] \in Values
          /\ v = slot[cellOf[c]]
          /\ result' = [result EXCEPT ![c] = v]
          /\ pc' = [pc EXCEPT ![c] = "done"]
       \/ /\ slot[cellOf[c]] = Empty
          /\ v = NoValue
          /\ pc' = [pc EXCEPT ![c] = "panicked"]
          /\ UNCHANGED result
       \/ /\ slot[cellOf[c]] = Writing
          /\ IF v = NoValue
               THEN pc' = [pc EXCEPT ![c] = "panicked"] /\ UNCHANGED result
               ELSE /\ result' = [result EXCEPT ![c] = v]
                    /\ pc' = [pc EXCEPT ![c] = "done"]
    /\ awaiting' = Finished(c)
    /\ UNCHANGED <<key, lock, mapping, cellOf, cellVars, seen, output, invoked,
                   histVars>>

\* A drop that empties the cell's whole wait list.
DropWaiter_ClearsList(c) ==
    /\ pc[c] \in {"waiter_ready", "waiting"}
    /\ waitlist' = [waitlist EXCEPT ![cellOf[c]] = {}]
    /\ woken' = woken \ {c}
    /\ pc' = [pc EXCEPT ![c] = "dropped_waiter"]
    /\ awaiting' = Finished(c)
    /\ UNCHANGED <<key, lock, mapping, cellOf, slot, notifyCalls, seen, output,
                   result, invoked, histVars>>

\* The caller drops a waiter's future, unpolled or suspended in notified.await:
\* dropping the Notified takes it off the wait list.
DropWaiter(c) ==
    /\ pc[c] \in {"waiter_ready", "waiting"}
    /\ waitlist' = [waitlist EXCEPT ![cellOf[c]] = @ \ {c}]
    /\ woken' = woken \ {c}
    /\ pc' = [pc EXCEPT ![c] = "dropped_waiter"]
    /\ awaiting' = Finished(c)
    /\ UNCHANGED <<key, lock, mapping, cellOf, slot, notifyCalls, seen, output,
                   result, invoked, histVars>>

\* An owner whose drop removes its registry entry.
DropOwner_Cleanup(c) ==
    /\ pc[c] \in {"owner_ready", "running"}
    /\ mapping' = MapRemove(mapping, key[c])
    /\ pc' = [pc EXCEPT ![c] = "dropped_owner"]
    /\ awaiting' = Finished(c)
    /\ UNCHANGED <<key, lock, cellOf, cellVars, seen, output, result,
                   invoked, histVars>>

\* The caller drops an owner's future, unpolled or suspended in fut.await: the
\* rest of the async block (remove, wake) never runs.
DropOwner(c) ==
    /\ pc[c] \in {"owner_ready", "running"}
    /\ pc' = [pc EXCEPT ![c] = "dropped_owner"]
    /\ awaiting' = Finished(c)
    /\ UNCHANGED <<key, lock, mapping, cellOf, cellVars, seen, output, result,
                   invoked, histVars>>

\* The steps of work up to the returned future.
Issue ==
    \/ \E c \in Calls, k \in Keys : UpgradableRead(c, k)
    \/ \E c \in Calls : Attach(c)
    \/ \E c \in Calls : Upgrade(c)
    \/ \E c \in Calls : Insert(c)
    \/ \E c \in Calls : InvokeFunc(c)

\* The steps of an owner's future that has been polled.
RunOwner ==
    \/ \E c \in Calls, v \in Values : FutReady(c, v)
    \/ \E c \in Calls : WriteLock(c)
    \/ \E c \in Calls : Remove(c)
    \/ \E c \in Calls : StoreBegin(c)
    \/ \E c \in Calls : StoreEnd(c)
    \/ \E c \in Calls : NotifyWaiters(c)

\* The slot read of a waiter's future whose notified.await is ready.
RunRead == \E c \in Calls, v \in Values \cup {NoValue} : ReadSlot(c, v)

Next ==
    \/ Issue
    \/ RunOwner
    \/ RunRead
    \/ \E c \in Calls : Resume(c)
    \/ \E c \in Calls : PollOwner(c)
    \/ \E c \in Calls : PollWaiter(c)
    \/ \E c \in Calls : DropWaiter(c)
    \/ \E c \in Calls : DropOwner(c)

Spec == Init /\ [][Next]_vars

\* The steps an executor that polls every future, and a thread that is inside
\* work, take for call c.  Issuing a new call and dropping a future are the
\* caller's choices and are not scheduled.
Sched(c) ==
    \/ Attach(c)
    \/ Upgrade(c)
    \/ Insert(c)
    \/ InvokeFunc(c)
    \/ PollOwner(c)
    \/ PollWaiter(c)
    \/ \E v \in Values : FutReady(c, v)
    \/ WriteLock(c)
    \/ Remove(c)
    \/ StoreBegin(c)
    \/ StoreEnd(c)
    \/ NotifyWaiters(c)
    \/ Resume(c)
    \/ \E v \in Values \cup {NoValue} : ReadSlot(c, v)

\* Fair scheduling: every future is polled until it resolves, every producer's
\* future finishes, and the lock is handed on.
LiveSpec == Spec /\ \A c \in Calls : WF_vars(Sched(c))

\* Every call to work has returned its future.
AllIssued == \A c \in Calls : pc[c] \notin Undecided \cup {"invoke"}

\* `for fut in futures.into_iter() { fut.await }`: a caller that first issues
\* every call and then awaits the futures one at a time, the next one only
\* when the one before has resolved.  Resume is no step of this caller: the
\* future it awaits is the only one polled, so a suspended waiter's cell is
\* never completed (NoSuspendedWake, part of C5).
SeqAwaitOwner(c) ==
    /\ AllIssued
    /\ awaiting = NoCall
    /\ PollOwnerStep(c)
    /\ awaiting' = c

SeqAwaitWaiter(c) ==
    /\ AllIssued
    /\ awaiting = NoCall
    /\ PollWaiterStep(c)
    /\ awaiting' = c

SeqNext ==
    \/ Issue
    \/ RunOwner
    \/ RunRead
    \/ \E c \in Calls : SeqAwaitOwner(c)
    \/ \E c \in Calls : SeqAwaitWaiter(c)

SeqSpec == Init /\ [][SeqNext]_vars

\* The test's call counter, per key: how many producers of key k were called
\* among calls 1..n.
RECURSIVE SumInvoked(_, _)
SumInvoked(k, n) ==
    IF n = 0 THEN 0
    ELSE (IF key[n] = k THEN invoked[n] ELSE 0) + SumInvoked(k, n - 1)

Invocations(k) == SumInvoked(k, MaxCalls)

\* The calls that found owner o's work unfinished at their lookup, and o.
Group(o) == {o} \cup {c \in Calls : o \in inflightAt[c] /\ pc[c] \notin Undecided}

\* The calls that created and inserted a cell.
Owners == {c \in Calls : cellOf[c] = c /\ pc[c] \notin Undecided}

-----------------------------------------------------------------------------
(* C1: Single execution under concurrency.  When calls with one key are all
   issued before the owner's work has completed, the owner's producer is the
   only one invoked, exactly once, every other call of the group holds the
   owner's cell, and every call of the group that resolves returns the
   owner's output. *)
C1_SingleExecution ==
    \A o \in Owners :
        /\ pc[o] # "invoke" => invoked[o] = 1
        /\ \A c \in Group(o) :
              /\ cellOf[c] = o
              /\ inflightAt[c] \subseteq {o}
              /\ c # o => invoked[c] = 0
              /\ pc[c] = "done" => result[c] = output[o] /\ result[c] \in Values

C1_Witness ==
    \E o \in Owners :
        /\ Group(o) = Calls
        /\ \A c \in Calls : pc[c] = "done" /\ result[c] = output[o]
        /\ Invocations(key[o]) = 1

(* C2: At most one operation in flight per key.  In every state at most one
   producer-created computation per key is started and unfinished, and a call
   that leaves its lookup while one is unfinished becomes a waiter on that
   computation's cell and starts nothing. *)
Started(k) == {o \in Calls : key[o] = k /\ pc[o] \in {"owner_ready", "running"}}

C2_ArrivalAttaches ==
    \A c \in Calls :
        (pc[c] = "get" /\ pc'[c] # "get" /\ Started(key[c]) # {}) =>
            /\ pc'[c] = "waiter_ready"
            /\ cellOf'[c] \in Started(key[c])
            /\ invoked'[c] = 0
            /\ mapping' = mapping

\* C2: at most one started, unfinished computation per key, and arrivals attach.
C2_AtMostOneInFlight ==
    /\ [](\A k \in Keys : Cardinality(Started(k)) <= 1)
    /\ [][C2_ArrivalAttaches]_vars

C2_Witness ==
    \E o, c \in Calls :
        /\ c # o
        /\ pc[o] = "running"
        /\ pc[c] = "waiter_ready"
        /\ cellOf[c] = o
        /\ o \in inflightAt[c]

(* C3: Late-await correctness.  A waiter that is first polled only after its
   cell was removed from the registry and completed never suspends on the
   missed notification, never invokes its producer, and resolves to the value
   the owner of that cell set. *)
C3_LateAwait ==
    \A c \in Calls :
        latePoll[c] =>
            /\ pc[c] \in {"read", "done"}
            /\ cellOf[c] # c
            /\ invoked[c] = 0
            /\ slot[cellOf[c]] = output[cellOf[c]]
            /\ pc[c] = "done" => result[c] = output[cellOf[c]]

C3_Witness ==
    \E c \in Calls :
        /\ latePoll[c]
        /\ pc[c] = "done"
        /\ pc[cellOf[c]] = "done"
        /\ result[c] = output[cellOf[c]]
        /\ Get(mapping, key[c]) # cellOf[c]

(* C4: Eventual resolution.  Under fair scheduling every call that holds a
   cell, as its owner or as a waiter, and whose own future is not dropped
   eventually resolves, and all calls of a cell resolve to the owner's value. *)
\* C4: every call of a cell whose future is kept resolves, to the owner's value.
C4_EventualResolution ==
    /\ [](\A c \in Calls : pc[c] = "done" => result[c] = output[cellOf[c]])
    /\ \A c \in Calls :
          [](pc[c] \in {"waiter_ready", "waiting", "owner_ready", "running"}
                => <>(pc[c] \in {"done", "dropped_waiter", "dropped_owner"}))

(* C5: Await-order independence.  For calls with one key issued before the
   first completes, the producer runs once and all calls resolve to the same
   value, also when the futures are awaited strictly one after the other. *)
AllResolved == \A c \in Calls : pc[c] = "done"

\* No suspended waiter has been notified: Resume is never enabled.
NoSuspendedWake == \A c \in Calls : ~(pc[c] = "waiting" /\ c \in woken)

C5_OnceAndEqual ==
    /\ NoSuspendedWake
    /\ \A k \in Keys : Invocations(k) <= 1
    /\ \A c, d \in Calls :
          (key[c] = key[d] /\ pc[c] = "done" /\ pc[d] = "done") =>
              result[c] = result[d]
    /\ AllResolved => \A c \in Calls : Invocations(key[c]) = 1

\* In any order of the futures, the sequential caller gets on until every
\* call has resolved.
\* C5, as claimed: sequential awaiting in any order runs to the end.
C5_AnyOrder == C5_OnceAndEqual /\ (AllResolved \/ ENABLED SeqNext)

\* The awaited future is an owner's, or a waiter's whose owner has resolved.
OwnerFirst ==
    awaiting # NoCall =>
        (cellOf[awaiting] = awaiting \/ pc[cellOf[awaiting]] = "done")

\* C5, amended: sequential awaiting with each owner before its waiters.
C5_OwnerFirstOrder ==
    C5_OnceAndEqual /\ (OwnerFirst => (AllResolved \/ ENABLED SeqNext))

C5_Witness ==
    /\ AllResolved
    /\ \A c \in Calls : key[c] = key[1] /\ result[c] = output[1]
    /\ \E c \in Calls : latePoll[c]
    /\ Invocations(key[1]) = 1

(* C6: Fresh execution after completion.  A call issued when every earlier
   call with its key has fully completed becomes a new owner, invokes its own
   producer and returns that producer's output; after one earlier call the
   key has then seen 2 producer invocations. *)
Earlier(c) == {d \in Calls : d < c /\ key[d] = key[c]}

C6_FreshExecution ==
    \A c \in Calls :
        (doneAt[c] /\ pc[c] \notin Undecided) =>
            /\ cellOf[c] = c
            /\ pc[c] # "invoke" => invoked[c] = 1
            /\ pc[c] = "done" => result[c] = output[c]
            /\ (pc[c] # "invoke" /\ Cardinality(Earlier(c)) = 1) =>
                  SumInvoked(key[c], c) = 2

C6_Witness ==
    \E c \in Calls :
        /\ doneAt[c]
        /\ pc[c] = "done"
        /\ Cardinality(Earlier(c)) = 1
        /\ SumInvoked(key[c], c) = 2
        /\ \A d \in Earlier(c) : result[d] # result[c]

(* C7: Key isolation.  Calls with unequal keys never hold the same cell and
   never receive each other's result; a step of a call with key k leaves the
   registry entry and the cell of every other key unchanged; distinct keys in
   flight have distinct owners, each of which invoked its own producer. *)
C7_Separate ==
    /\ \A c \in Calls : cellOf[c] # NoCall => key[cellOf[c]] = key[c]
    /\ \A k \in Keys : Get(mapping, k) # NoCall => key[Get(mapping, k)] = k
    /\ \A c, d \in Calls :
          (key[c] # key[d] /\ cellOf[c] # NoCall) => cellOf[c] # cellOf[d]
    /\ \A c \in Calls :
          pc[c] = "done" =>
              /\ result[c] = output[cellOf[c]]
              /\ key[cellOf[c]] = key[c]
    /\ \A k \in Keys :
          (Get(mapping, k) # NoCall /\ pc[Get(mapping, k)] # "invoke") =>
              invoked[Get(mapping, k)] = 1

C7_Frame ==
    \A c \in Calls :
        pc'[c] # pc[c] =>
            /\ \A k \in Keys \ {key'[c]} : mapping'[k] = mapping[k]
            /\ \A o \in Calls :
                  (key[o] # NoKey /\ key[o] # key'[c]) =>
                      /\ slot'[o] = slot[o]
                      /\ notifyCalls'[o] = notifyCalls[o]
                      /\ waitlist'[o] = waitlist[o]
                      /\ pc'[o] = pc[o]
                      /\ result'[o] = result[o]
                      /\ (o \in woken' <=> o \in woken)

\* C7: key isolation, as an invariant and a frame condition on every step.
C7_KeyIsolation == []C7_Separate /\ [][C7_Frame]_vars

C7_Witness ==
    \E o1, o2, w \in Calls :
        /\ key[o1] # key[o2]
        /\ cellOf[o1] = o1 /\ cellOf[o2] = o2 /\ cellOf[w] = o1 /\ w # o1
        /\ pc[o1] = "done" /\ pc[o2] = "done" /\ pc[w] = "done"
        /\ result[o1] # result[o2]
        /\ result[w] = result[o1]

(* C8: Abandoned owner leaves the key stuck.  While an owner has not reached
   its removal step, and for ever once its future is dropped, its entry stays
   in the registry, its cell is not completed and no waiter of the cell
   resolves; every call issued for the key after the drop becomes a waiter on
   that cell. *)
BeforeRemoval == {"invoke", "owner_ready", "running", "fut_done", "dropped_owner"}

C8_Stuck ==
    /\ \A o \in Calls :
          pc[o] \in BeforeRemoval =>
              /\ Get(mapping, key[o]) = o
              /\ slot[o] = Empty
              /\ notifyCalls[o] = 0
              /\ \A c \in Calls \ {o} :
                    cellOf[c] = o =>
                        pc[c] \in {"waiter_ready", "waiting", "dropped_waiter"}
    /\ \A c \in Calls :
          (stuckAt[c] # {} /\ pc[c] \notin Undecided) =>
              /\ \E o \in Calls : stuckAt[c] = {o} /\ cellOf[c] = o /\ c # o
              /\ invoked[c] = 0
              /\ pc[c] \in {"waiter_ready", "waiting", "dropped_waiter"}

C8_Forever ==
    \A o \in Calls : pc[o] = "dropped_owner" => pc'[o] = "dropped_owner"

\* C8: an abandoned owner leaves its key stuck, for ever.
C8_AbandonedOwner == []C8_Stuck /\ [][C8_Forever]_vars

C8_Witness ==
    \E o, c, d \in Calls :
        /\ pc[o] = "dropped_owner"
        /\ c # d
        /\ cellOf[c] = o /\ stuckAt[c] = {} /\ pc[c] = "waiting"
        /\ cellOf[d] = o /\ stuckAt[d] = {o} /\ pc[d] = "waiting"

(* C9: Waiter abandonment is harmless.  Dropping a waiter's future changes
   neither the registry nor the cell's slot and notification count, and it
   changes nothing of any other call, its place on the wait list included;
   the owner and the other waiters of the cell still resolve to the owner's
   value, and no other suspended waiter misses the notification. *)
C9_DropFrame ==
    \A c \in Calls :
        (pc[c] # "dropped_waiter" /\ pc'[c] = "dropped_waiter") =>
            /\ mapping' = mapping
            /\ lock' = lock
            /\ slot' = slot
            /\ notifyCalls' = notifyCalls
            /\ output' = output
            /\ \A d \in Calls \ {c} :
                  /\ pc'[d] = pc[d]
                  /\ cellOf'[d] = cellOf[d]
                  /\ seen'[d] = seen[d]
                  /\ result'[d] = result[d]
                  /\ (d \in woken' <=> d \in woken)
                  /\ \A o \in Calls : (d \in waitlist'[o] <=> d \in waitlist[o])

C9_OthersResolve ==
    \A c, d \in Calls :
        (pc[c] = "dropped_waiter" /\ d # c /\ cellOf[d] = cellOf[c]) =>
            /\ pc[d] = "done" => result[d] = output[cellOf[c]]
            /\ (pc[d] = "waiting" /\ notifyCalls[cellOf[d]] > 0) => d \in woken
            /\ pc[d] = "waiting" => d \in waitlist[cellOf[d]] \cup woken
            /\ pc[d] # "panicked"

\* C9: a waiter's drop changes nothing of the registry, the cell or the others.
C9_WaiterDropHarmless == []C9_OthersResolve /\ [][C9_DropFrame]_vars

C9_Witness ==
    \E o, c, d \in Calls :
        /\ pc[c] = "dropped_waiter"
        /\ cellOf[c] = o /\ cellOf[d] = o
        /\ c # o /\ d # o /\ c # d
        /\ pc[o] = "done" /\ pc[d] = "done"
        /\ ~latePoll[d]
        /\ result[d] = output[o] /\ result[o] = output[o]

(* C10: Producer invocation count.  A call invokes its producer at most once,
   and only as the call that reserved a new cell; a call that attached to an
   existing cell never does.  Per key, the producers invoked are as many as
   the cells ever inserted, less the owner that has inserted and is about to
   invoke. *)
AboutToInvoke(k) == {c \in Calls : key[c] = k /\ pc[c] = "invoke"}

\* C10: a producer is invoked at most once, by the reserving call only.
C10_InvocationCount ==
    /\ \A c \in Calls :
          /\ invoked[c] <= 1
          /\ invoked[c] = 1 => (cellOf[c] = c /\ pc[c] \notin Undecided \cup {"invoke"})
          /\ cellOf[c] \notin {c, NoCall} => invoked[c] = 0
    /\ \A k \in Keys :
          Invocations(k) + Cardinality(AboutToInvoke(k)) = epochs[k]

C10_Witness ==
    \E k \in Keys, w \in Calls :
        /\ epochs[k] = 2
        /\ Invocations(k) = 2
        /\ key[w] = k /\ cellOf[w] # w /\ pc[w] = "done" /\ invoked[w] = 0

\* pc values of an owner that has executed its removal step.
AfterRemoval == {"wake", "writing", "notify", "done"}

\* pc values of an owner that has inserted and still has its removal to do.
RemovalAhead == {"invoke", "owner_ready", "running", "fut_done", "removing"}

(* C11: Race window of remove-before-wake.  An owner removes its registry
   entry strictly before it writes or notifies its cell, so a new call for
   the key can become a fresh owner and invoke its producer while the first
   cell's waiters are not yet notified; every waiter still resolves to the
   value of the owner of its own cell, never to the other cell's. *)
C11_RemoveBeforeWake ==
    /\ \A o \in Calls :
          (slot[o] # Empty \/ notifyCalls[o] > 0) =>
              /\ pc[o] \in AfterRemoval
              /\ Get(mapping, key[o]) # o
    /\ \A o \in Calls : slot[o] \in Values => slot[o] = output[o]
    /\ \A c \in Calls :
          /\ pc[c] # "panicked"
          /\ pc[c] = "done" => result[c] = output[cellOf[c]]

C11_Witness ==
    \E o1, w, o2 \in Calls :
        /\ pc[o1] = "wake"
        /\ cellOf[w] = o1 /\ w # o1 /\ pc[w] = "waiting" /\ w \notin woken
        /\ o2 # o1 /\ key[o2] = key[o1] /\ cellOf[o2] = o2
        /\ Get(mapping, key[o1]) = o2
        /\ invoked[o2] = 1
        /\ pc[o2] = "running"

(* C12: Stale removal.  As claimed, a newer cell that another owner inserted
   for the key is exposed to the older owner's removal step: while the older
   owner has not returned and the newer cell is the live entry, the older
   owner's removal is still to come. *)
C12_NewerCellExposed ==
    \A o, n \in Calls :
        (/\ o < n
         /\ cellOf[o] = o /\ cellOf[n] = n
         /\ key[o] = key[n]
         /\ Get(mapping, key[o]) = n
         /\ pc[o] \notin {"done", "dropped_owner"})
            => pc[o] \in RemovalAhead

\* C12, amended: removal is by key with no identity check, yet every removal
\* step deletes the remover's own cell, because the entry of an owner whose
\* removal is still to come is its own cell.
C12_OwnEntry ==
    \A o \in Calls : pc[o] \in RemovalAhead => Get(mapping, key[o]) = o

C12_RemoveStep ==
    \A c \in Calls :
        (pc[c] = "removing" /\ pc'[c] # "removing") =>
            /\ Get(mapping, key[c]) = c
            /\ Get(mapping', key[c]) = NoCall
            /\ \A k \in Keys \ {key[c]} : Get(mapping', k) = Get(mapping, k)

C12_RemovesOwnCell == []C12_OwnEntry /\ [][C12_RemoveStep]_vars

C12_Witness ==
    \E o, n \in Calls :
        /\ o < n /\ key[o] = key[n]
        /\ cellOf[o] = o /\ cellOf[n] = n
        /\ pc[o] \in {"wake", "writing", "notify"}
        /\ pc[n] = "wake"
        /\ Get(mapping, key[o]) = NoCall

(* C13: Registration precedes completion.  A caller attaches only while it
   holds the registry lock and the cell is the key's live entry, with the
   slot empty and no notification sent; a cell that is reachable through the
   registry is never written or notified. *)
C13_LiveCellsPending ==
    /\ \A k \in Keys :
          Get(mapping, k) # NoCall =>
              /\ slot[Get(mapping, k)] = Empty
              /\ notifyCalls[Get(mapping, k)] = 0
    /\ \A c \in Calls : seen[c] = 0

C13_Steps ==
    \A c \in Calls :
        /\ (pc[c] = "get" /\ pc'[c] = "waiter_ready") =>
              /\ lock = [mode |-> "upgradable", holder |-> c]
              /\ cellOf'[c] = Get(mapping, key[c])
              /\ slot[cellOf'[c]] = Empty
              /\ notifyCalls[cellOf'[c]] = 0
              /\ pc[cellOf'[c]] \notin AfterRemoval
        /\ (pc'[c] # pc[c] /\ (slot' # slot \/ notifyCalls' # notifyCalls)) =>
              /\ cellOf[c] = c
              /\ \A k \in Keys : Get(mapping, k) # c

\* C13: registrations happen under the lock on a live, uncompleted cell.
C13_RegistrationFirst == []C13_LiveCellsPending /\ [][C13_Steps]_vars

C13_Witness ==
    \E w \in Calls :
        /\ cellOf[w] \notin {w, NoCall}
        /\ seen[w] = 0
        /\ ~latePoll[w]
        /\ pc[w] = "done"
        /\ notifyCalls[cellOf[w]] = 1

(* C14: Write-once cell.  A cell is written and notified at most once, only
   by the call that created and inserted it; its slot goes from empty to set
   once, through the one store, and never changes or empties again. *)
C14_OwnerOnly ==
    \A o \in Calls :
        /\ notifyCalls[o] <= 1
        /\ slot[o] # Empty => (cellOf[o] = o /\ pc[o] \in {"writing", "notify", "done"})
        /\ slot[o] \in Values => slot[o] = output[o]
        /\ notifyCalls[o] = 1 => (pc[o] = "done" /\ slot[o] \in Values)

C14_SlotSteps ==
    \A o \in Calls :
        /\ slot'[o] # slot[o] =>
              /\ pc'[o] # pc[o]
              /\ cellOf[o] = o
              /\ slot[o] \notin Values
              /\ slot[o] = Empty => slot'[o] = Writing
              /\ slot[o] = Writing => slot'[o] \in Values
        /\ notifyCalls'[o] # notifyCalls[o] =>
              /\ pc'[o] # pc[o]
              /\ cellOf[o] = o
              /\ notifyCalls[o] = 0

\* C14: one writer, one write, one notification per cell.
C14_WriteOnce == []C14_OwnerOnly /\ [][C14_SlotSteps]_vars

C14_Witness ==
    \E o, w1, w2 \in Calls :
        /\ w1 # w2 /\ w1 # o /\ w2 # o
        /\ cellOf[w1] = o /\ cellOf[w2] = o
        /\ pc[o] = "done" /\ pc[w1] = "done" /\ pc[w2] = "done"
        /\ slot[o] = output[o]
        /\ notifyCalls[o] = 1

(* C15: No waiter reads an empty or partially written slot.  The store is
   complete before the notification, so a waiter that has passed its
   notification reads a set slot: the "value not set unexpectedly" panic is
   unreachable and no read overlaps the store. *)
C15_ReadsSetSlot ==
    /\ \A c \in Calls :
          /\ pc[c] = "read" => slot[cellOf[c]] \in Values
          /\ c \in woken => slot[cellOf[c]] \in Values
          /\ pc[c] # "panicked"
          /\ (pc[c] = "done" /\ cellOf[c] # c) => result[c] = slot[cellOf[c]]
    /\ \A o \in Calls :
          /\ notifyCalls[o] > 0 => slot[o] \in Values
          /\ slot[o] = Writing =>
                \A c \in Calls : cellOf[c] = o => pc[c] # "read"

C15_Witness ==
    \E c, d \in Calls :
        /\ c # d
        /\ cellOf[c] = cellOf[d] /\ cellOf[c] \notin {c, d}
        /\ pc[c] = "read" /\ ~latePoll[c]
        /\ pc[d] = "read" /\ latePoll[d]
        /\ slot[cellOf[c]] \in Values

(* C16: No leaked entries.  An entry leaves the registry only in its owner's
   removal step, after the owner's work has returned, and an owner past that
   step has no entry; when every owner that reserved a cell has returned the
   registry is empty. *)
C16_NoEntryLeft ==
    /\ \A o \in Owners : pc[o] \in AfterRemoval => Get(mapping, key[o]) # o
    /\ \A k \in Keys :
          Get(mapping, k) # NoCall =>
              pc[Get(mapping, k)] \in RemovalAhead \cup {"dropped_owner"}
    /\ (\A o \in Owners : pc[o] = "done") =>
          \A k \in Keys : Get(mapping, k) = NoCall

C16_RemovedByOwner ==
    \A k \in Keys :
        (Get(mapping, k) # NoCall /\ Get(mapping', k) # Get(mapping, k)) =>
            /\ Get(mapping', k) = NoCall
            /\ pc[Get(mapping, k)] = "removing"
            /\ pc'[Get(mapping, k)] = "wake"
            /\ output[Get(mapping, k)] \in Values

\* C16: entries are removed exactly by their owner's removal step.
C16_NoLeak == []C16_NoEntryLeft /\ [][C16_RemovedByOwner]_vars

C16_Witness ==
    /\ \A c \in Calls : pc[c] = "done"
    /\ \A k \in Keys : Get(mapping, k) = NoCall
    /\ \E k \in Keys : epochs[k] = 2
    /\ \E c \in Calls : cellOf[c] # c

(* C17: Registry/owner correspondence.  For every key the registry holds an
   entry exactly when one owner of the key has inserted its cell and not yet
   executed its removal step, the entry is that owner's cell, and there are
   never two such owners; so an owner at its removal step finds its own cell. *)
Holders(k) ==
    {o \in Calls : /\ key[o] = k
                   /\ cellOf[o] = o
                   /\ pc[o] \in RemovalAhead \cup {"dropped_owner"}}

C17_Correspondence ==
    /\ \A k \in Keys :
          /\ Cardinality(Holders(k)) <= 1
          /\ Get(mapping, k) # NoCall <=> Holders(k) # {}
          /\ Holders(k) # {} => Holders(k) = {Get(mapping, k)}
    /\ \A c \in Calls : pc[c] = "removing" => Get(mapping, key[c]) = c

C17_Witness ==
    \E o, n \in Calls :
        /\ o # n /\ key[o] = key[n]
        /\ cellOf[o] = o /\ pc[o] \in {"wake", "writing", "notify"}
        /\ pc[n] = "removing"
        /\ Holders(key[n]) = {n}
        /\ Get(mapping, key[n]) = n

(* C18: Roles are fixed at call time.  When work has returned, the lookup,
   the reservation or registration and the producer call are done: an owner's
   future that is not yet polled already occupies the key and has invoked its
   producer, a later same-key call is its waiter whichever future is polled
   first, and no later step changes a call's cell, key or invocation. *)
Unpolled == {"owner_ready", "waiter_ready"}

C18_FixedAtCall ==
    /\ \A c \in Calls :
          /\ pc[c] = "owner_ready" =>
                /\ cellOf[c] = c
                /\ invoked[c] = 1
                /\ Get(mapping, key[c]) = c
                /\ lock.holder # c
          /\ pc[c] = "waiter_ready" =>
                /\ cellOf[c] \notin {c, NoCall}
                /\ invoked[c] = 0
                /\ lock.holder # c
    /\ \A c, d \in Calls :
          (/\ c < d /\ key[c] = key[d]
           /\ cellOf[c] = c /\ pc[c] \in RemovalAhead \cup {"dropped_owner"}
           /\ pc[d] \notin Undecided) => cellOf[d] = c

C18_LaterSteps ==
    \A c \in Calls :
        pc[c] \notin Undecided \cup {"invoke"} =>
            /\ cellOf'[c] = cellOf[c]
            /\ key'[c] = key[c]
            /\ invoked'[c] = invoked[c]
            /\ seen'[c] = seen[c]
            /\ (pc[c] \in Unpolled /\ pc'[c] # pc[c]) => mapping' = mapping

\* C18: owner and waiters are decided by the order of the calls to work.
C18_RolesAtCallTime == []C18_FixedAtCall /\ [][C18_LaterSteps]_vars

C18_Witness ==
    \E o, w \in Calls :
        /\ o < w
        /\ pc[o] = "owner_ready"
        /\ cellOf[w] = o
        /\ pc[w] = "waiting"
        /\ w \in waitlist[o]
        /\ invoked[o] = 1 /\ invoked[w] = 0

(* C19: Lock never held across suspension.  A call holds the registry lock
   only between its lookup and its registration or insert, and during its
   removal; a call that is invoking its producer, waiting to be polled or
   suspended on its producer or on a notification holds no lock. *)
LockHeldAt == {"get", "upgraded", "removing"}
Suspended == {"invoke", "owner_ready", "running", "waiter_ready", "waiting"}

C19_LockScopes ==
    /\ \A c \in Calls :
          /\ pc[c] \in Suspended => lock.holder # c
          /\ lock.holder = c <=> pc[c] \in LockHeldAt
          /\ pc[c] = "get" => lock.mode = "upgradable"
          /\ pc[c] \in {"upgraded", "removing"} => lock.mode = "write"
    /\ lock.mode = "free" <=> lock.holder = NoCall
    /\ Cardinality({c \in Calls : pc[c] \in LockHeldAt}) <= 1

C19_HoldSteps ==
    \A c \in Calls :
        (lock.holder = c /\ pc'[c] # pc[c]) =>
            \/ lock' = Free
            \/ /\ pc[c] = "get" /\ pc'[c] = "upgraded"
               /\ lock' = [mode |-> "write", holder |-> c]
               /\ mapping' = mapping

\* C19: the lock is held for one lookup, insert or removal, never longer.
C19_NoLockAcrossAwait == []C19_LockScopes /\ [][C19_HoldSteps]_vars

C19_Witness ==
    \E o, w, d \in Calls :
        /\ pc[o] = "running"
        /\ pc[w] = "waiting" /\ cellOf[w] = o
        /\ pc[d] = "get" /\ lock = [mode |-> "upgradable", holder |-> d]

=============================================================================
